---- MODULE Spec2Model ----
(***************************************************************************)
(* A model of assert-json-object: the path resolver getValueAtPath         *)
(* (src/src/utils.ts) and the fluent assertion class JsonAssertion         *)
(* (src/src/assertJson.ts).                                                *)
(*                                                                         *)
(* JavaScript strings (paths, keys, string values, messages) are modelled  *)
(* as sequences of text chunks; a chunk is a TLA+ string standing for a    *)
(* single character, or for a piece of the literal text of a template      *)
(* string of the source ("Expected key '", "not ", "to exist", ...).       *)
(* JavaScript values are tagged records:                                   *)
(*   [k |-> "undefined"], [k |-> "null"], [k |-> "boolean", bv |-> b],     *)
(*   [k |-> "number", nv |-> n], [k |-> "string", sv |-> chunks],          *)
(*   [k |-> "array", av |-> elements],                                     *)
(*   [k |-> "object", ov |-> <<[key |-> chunks, val |-> value], ...>>]     *)
(*   (own properties in the order JavaScript enumerates them), and         *)
(*   [k |-> "function", ar |-> n] for the methods every value inherits.    *)
(***************************************************************************)
EXTENDS Integers, Sequences, FiniteSets, TLC

VARIABLES
    doc,       \* the caller's document
    test,      \* the caller's test: the path it asserts on, the checks it uses
    views,     \* the JsonAssertion instances the caller can reach, by name:
               \* "base" (what the entry point returned) and "clone" (what
               \* .not returned, while the chain it started is running)
    arrays,    \* the arrays of Error objects on the heap, by name: "base" and
               \* "clone" (each instance's own), "snap" (what getErrors gave)
    cur,       \* the value of the chain expression so far: the name of the
               \* view the last call returned, "none" when it returned none
    snap,      \* the name of the array getErrors() last returned, or "none"
    thrown,    \* the error the last call raised, NoError when it returned
    lineage,   \* history: the view .not was accessed on to make views.clone,
               \* after the one it was made from when that was the call before
               \* (v and v.not, for v.not.not); empty while there is no clone
    last,      \* the last call: its receiver, its decision
    rdoc,      \* resolver run: the document
    rpath,     \* resolver run: the path string
    rres       \* resolver run: the result, NotRun before the call

vars == <<doc, test, views, arrays, cur, snap, thrown, lineage, last,
          rdoc, rpath, rres>>

----------------------------------------------------------------------------
(* JavaScript values *)

Undef == [k |-> "undefined"]
Null == [k |-> "null"]
Bool(b) == [k |-> "boolean", bv |-> b]
Num(n) == [k |-> "number", nv |-> n]
Str(s) == [k |-> "string", sv |-> s]
Arr(a) == [k |-> "array", av |-> a]
Obj(o) == [k |-> "object", ov |-> o]
Fun(n) == [k |-> "function", ar |-> n]
Prop(key, val) == [key |-> key, val |-> val]

Digits == {"0", "1", "2", "3", "4", "5", "6", "7", "8", "9"}

DigitVal(c) ==
    CASE c = "0" -> 0 [] c = "1" -> 1 [] c = "2" -> 2 [] c = "3" -> 3
      [] c = "4" -> 4 [] c = "5" -> 5 [] c = "6" -> 6 [] c = "7" -> 7
      [] c = "8" -> 8 [] c = "9" -> 9

----------------------------------------------------------------------------
(* getValueAtPath *)

\* The length of the run of digits of s that starts at position i.
RECURSIVE DigitRun(_, _)
DigitRun(s, i) ==
    IF i <= Len(s) /\ s[i] \in Digits THEN 1 + DigitRun(s, i + 1) ELSE 0

\* path.replace(/\[(\d+)\]/g, ".$1"): every "[", one or more digits, "]" is
\* replaced by "." and the digits; scanning left to right from position i.
RECURSIVE ReplaceFrom(_, _)
ReplaceFrom(s, i) ==
    IF i > Len(s) THEN <<>>
    ELSE LET n == DigitRun(s, i + 1)
         IN IF s[i] = "[" /\ n >= 1 /\ i + n + 1 <= Len(s) /\ s[i + n + 1] = "]"
            THEN <<".">> \o SubSeq(s, i + 1, i + n) \o ReplaceFrom(s, i + n + 2)
            ELSE <<s[i]>> \o ReplaceFrom(s, i + 1)

\* A resolver that leaves the brackets in the path.
ReplaceBracketsNone(path) == path

ReplaceBrackets(path) == ReplaceFrom(path, 1)

\* s.split("."): the pieces between the dots, empty pieces kept; piece is
\* the one being read at position i.
RECURSIVE SplitFrom(_, _, _)
SplitFrom(s, i, piece) ==
    IF i > Len(s) THEN <<piece>>
    ELSE IF s[i] = "." THEN <<piece>> \o SplitFrom(s, i + 1, <<>>)
    ELSE SplitFrom(s, i + 1, Append(piece, s[i]))

SplitDots(s) == SplitFrom(s, 1, <<>>)

\* A property name that is an array index: decimal digits without a leading
\* zero ("0", "1", "10", not "01", not "").
IsIndex(key) ==
    /\ Len(key) >= 1
    /\ \A i \in 1..Len(key) : key[i] \in Digits
    /\ (Len(key) = 1 \/ key[1] # "0")

RECURSIVE IndexVal(_)
IndexVal(key) ==
    IF Len(key) = 0 THEN 0
    ELSE 10 * IndexVal(SubSeq(key, 1, Len(key) - 1)) + DigitVal(key[Len(key)])

\* The own property `key` of an object with properties o (an object holds
\* one property of a name).
HasOwn(o, key) == \E i \in 1..Len(o) : o[i].key = key

OwnValue(o, key) == o[CHOOSE j \in 1..Len(o) : o[j].key = key].val

LengthName == <<"l", "e", "n", "g", "t", "h">>
ToStringName == <<"t", "o", "S", "t", "r", "i", "n", "g">>

\* The properties a value inherits from its prototype, as far as the chunks
\* of the model can name them: the method toString.
Inherited(val, key) ==
    IF key = ToStringName
    THEN Fun(IF val.k = "number" THEN 1 ELSE 0)
    ELSE Undef

\* acc?.[key]: undefined for null and undefined, else JavaScript's property
\* read: own properties first, then the prototype's.
Member(acc, key) ==
    CASE acc.k \in {"undefined", "null"} -> Undef
      [] acc.k = "object" ->
            IF HasOwn(acc.ov, key) THEN OwnValue(acc.ov, key)
            ELSE Inherited(acc, key)
      [] acc.k = "array" ->
            IF IsIndex(key) /\ IndexVal(key) < Len(acc.av)
            THEN acc.av[IndexVal(key) + 1]
            ELSE IF key = LengthName THEN Num(Len(acc.av))
            ELSE Inherited(acc, key)
      [] acc.k = "string" ->
            IF IsIndex(key) /\ IndexVal(key) < Len(acc.sv)
            THEN Str(<<acc.sv[IndexVal(key) + 1]>>)
            ELSE IF key = LengthName THEN Num(Len(acc.sv))
            ELSE Inherited(acc, key)
      [] acc.k = "function" ->
            IF key = LengthName THEN Num(acc.ar)
            ELSE Inherited(acc, key)
      [] OTHER -> Inherited(acc, key)

\* How a call that raised completes: in place of a value, the error.
Raised == [k |-> "raised"]

\* acc[key] without the optional chain: a TypeError for null and undefined.
MemberUnguarded(acc, key) ==
    IF acc.k \in {"undefined", "null"} THEN Raised ELSE Member(acc, key)

\* The reduce with acc[key], and no try around it.
RECURSIVE ReduceUnguarded(_, _)
ReduceUnguarded(keys, acc) ==
    IF acc = Raised THEN Raised
    ELSE IF Len(keys) = 0 THEN acc
    ELSE ReduceUnguarded(Tail(keys), MemberUnguarded(acc, Head(keys)))

getValueAtPathUnguarded(obj, path) ==
    ReduceUnguarded(SplitDots(ReplaceBrackets(path)), obj)

\* keys.reduce((acc, key) => acc?.[key], obj); a callback that raises ends it.
RECURSIVE Reduce(_, _)
Reduce(keys, acc) ==
    IF acc = Raised THEN Raised
    ELSE IF Len(keys) = 0 THEN acc
    ELSE Reduce(Tail(keys), Member(acc, Head(keys)))

\* try { return path.replace(...).split(".").reduce(...) }
\* catch { return undefined }
getValueAtPath(obj, path) ==
    LET tried == Reduce(SplitDots(ReplaceBrackets(path)), obj)
    IN IF tried = Raised THEN Undef ELSE tried

----------------------------------------------------------------------------
(* JSON.stringify, String(), typeof, truthiness *)

DigitChar(d) ==
    CASE d = 0 -> "0" [] d = 1 -> "1" [] d = 2 -> "2" [] d = 3 -> "3"
      [] d = 4 -> "4" [] d = 5 -> "5" [] d = 6 -> "6" [] d = 7 -> "7"
      [] d = 8 -> "8" [] d = 9 -> "9"

\* The decimal digits of a natural number.
RECURSIVE NatStr(_)
NatStr(n) ==
    IF n < 10 THEN <<DigitChar(n)>>
    ELSE NatStr(n \div 10) \o <<DigitChar(n % 10)>>

\* `${n}` for an integer n.
NumStr(n) == IF n < 0 THEN <<"-">> \o NatStr(0 - n) ELSE NatStr(n)

\* The result of JSON.stringify: a string, or undefined.
Text(s) == [def |-> TRUE, s |-> s]
NoText == [def |-> FALSE]

\* JSON.stringify(v): undefined for undefined and for a function; inside an
\* array these become null, inside an object their property is left out.
RECURSIVE StringifyIn(_)
RECURSIVE StringifyElems(_, _)
RECURSIVE StringifyProps(_, _, _)
StringifyIn(v) ==
    CASE v.k = "null" -> <<"n", "u", "l", "l">>
      [] v.k = "boolean" ->
            IF v.bv THEN <<"t", "r", "u", "e">> ELSE <<"f", "a", "l", "s", "e">>
      [] v.k = "number" -> NumStr(v.nv)
      [] v.k = "string" -> <<"\"">> \o v.sv \o <<"\"">>
      [] v.k = "array" -> <<"[">> \o StringifyElems(v.av, 1) \o <<"]">>
      [] v.k = "object" -> <<"{">> \o StringifyProps(v.ov, 1, TRUE) \o <<"}">>

StringifyElems(a, i) ==
    IF i > Len(a) THEN <<>>
    ELSE (IF i > 1 THEN <<",">> ELSE <<>>)
         \o (IF a[i].k \in {"undefined", "function"}
             THEN <<"n", "u", "l", "l">>
             ELSE StringifyIn(a[i]))
         \o StringifyElems(a, i + 1)

StringifyProps(o, i, first) ==
    IF i > Len(o) THEN <<>>
    ELSE IF o[i].val.k \in {"undefined", "function"}
         THEN StringifyProps(o, i + 1, first)
         ELSE (IF first THEN <<>> ELSE <<",">>)
              \o <<"\"">> \o o[i].key \o <<"\"", ":">> \o StringifyIn(o[i].val)
              \o StringifyProps(o, i + 1, FALSE)

JSONstringify(v) ==
    IF v.k \in {"undefined", "function"} THEN NoText ELSE Text(StringifyIn(v))

\* `${JSON.stringify(v)}` inside a template string.
Shown(v) ==
    IF JSONstringify(v).def THEN JSONstringify(v).s
    ELSE <<"u", "n", "d", "e", "f", "i", "n", "e", "d">>

\* String(v), for the values a caller passes as `expected`.
RECURSIVE ToStr(_)
RECURSIVE JoinElems(_, _)
ToStr(v) ==
    CASE v.k = "undefined" -> <<"u", "n", "d", "e", "f", "i", "n", "e", "d">>
      [] v.k = "null" -> <<"n", "u", "l", "l">>
      [] v.k = "boolean" ->
            IF v.bv THEN <<"t", "r", "u", "e">> ELSE <<"f", "a", "l", "s", "e">>
      [] v.k = "number" -> NumStr(v.nv)
      [] v.k = "string" -> v.sv
      [] v.k = "array" -> JoinElems(v.av, 1)
      [] v.k = "object" ->
            <<"[", "o", "b", "j", "e", "c", "t", " ", "O", "b", "j", "e", "c", "t", "]">>

JoinElems(a, i) ==
    IF i > Len(a) THEN <<>>
    ELSE (IF i > 1 THEN <<",">> ELSE <<>>)
         \o (IF a[i].k \in {"undefined", "null"} THEN <<>> ELSE ToStr(a[i]))
         \o JoinElems(a, i + 1)

\* s.includes(t)
Includes(s, t) ==
    \E i \in 0..(Len(s) - Len(t)) : SubSeq(s, i + 1, i + Len(t)) = t

LowerChar(c) ==
    CASE c = "A" -> "a" [] c = "B" -> "b" [] c = "C" -> "c" [] OTHER -> c

\* s.toLowerCase()
toLowerCase(s) == [i \in 1..Len(s) |-> LowerChar(s[i])]

\* typeof v
TypeOf(v) == IF v.k \in {"null", "array", "object"} THEN "object" ELSE v.k

\* toBeType that classifies by typeof alone.
ActualTypeByTypeof(v) == TypeOf(v)

\* value === null ? "null" : Array.isArray(value) ? "array" : typeof value
ActualType(v) ==
    IF v = Null THEN "null" ELSE IF v.k = "array" THEN "array" ELSE TypeOf(v)

\* A truthiness under which empty arrays and empty objects are falsy too.
TruthyNonEmpty(v) ==
    CASE v.k \in {"undefined", "null"} -> FALSE
      [] v.k = "boolean" -> v.bv
      [] v.k = "number" -> v.nv # 0
      [] v.k = "string" -> Len(v.sv) > 0
      [] v.k = "array" -> Len(v.av) > 0
      [] v.k = "object" -> Len(v.ov) > 0
      [] OTHER -> TRUE

\* !!v
Truthy(v) ==
    CASE v.k \in {"undefined", "null"} -> FALSE
      [] v.k = "boolean" -> v.bv
      [] v.k = "number" -> v.nv # 0
      [] v.k = "string" -> Len(v.sv) > 0
      [] OTHER -> TRUE

----------------------------------------------------------------------------
(* JsonAssertion: construction and the negation modifier *)

\* An optional number (maxErrors?: number): unset, or set to n.
Unset == [def |-> FALSE]
Max(n) == [def |-> TRUE, n |-> n]

\* The options object of a constructor call ({} when the caller passes none).
Opts(soft, maxErrors) == [soft |-> soft, maxErrors |-> maxErrors]

\* No array: the sharedErrors argument left undefined.
NoArray == "none"

\* new JsonAssertion(target, opts, sharedErrors, sharedMaxErrors): the new
\* instance. fresh is the id of the array its field initialiser creates
\* (errors = []), which it keeps unless it is soft and given a shared one.
Construct(target, opts, sharedErrors, sharedMaxErrors, fresh) ==
    [target |-> target,
     negated |-> FALSE,
     soft |-> opts.soft,
     errors |-> IF opts.soft /\ sharedErrors # NoArray THEN sharedErrors ELSE fresh,
     maxErrors |-> IF opts.soft
                   THEN (IF sharedMaxErrors.def THEN sharedMaxErrors
                         ELSE opts.maxErrors)
                   ELSE Unset]

\* get not() that passes no shared array to the constructor.
NotCloneOwnErrors(t, fresh) ==
    [Construct(t.target, Opts(t.soft, t.maxErrors), NoArray,
               IF t.soft THEN t.maxErrors ELSE Unset, fresh)
     EXCEPT !.negated = ~t.negated]

\* get not() that sets the flag instead of inverting it: clone.negated = true.
NotCloneSetsFlag(t, fresh) ==
    [Construct(t.target, Opts(t.soft, t.maxErrors),
               IF t.soft THEN t.errors ELSE NoArray,
               IF t.soft THEN t.maxErrors ELSE Unset, fresh)
     EXCEPT !.negated = TRUE]

\* get not() whose clone looks at an emptied document.
NotCloneEmptiesTarget(t, fresh) ==
    [Construct(Obj(<<>>), Opts(t.soft, t.maxErrors),
               IF t.soft THEN t.errors ELSE NoArray,
               IF t.soft THEN t.maxErrors ELSE Unset, fresh)
     EXCEPT !.negated = ~t.negated]

\* get not() that does not hand maxErrors on to the clone.
NotCloneUnlimited(t, fresh) ==
    [Construct(t.target, Opts(t.soft, Unset),
               IF t.soft THEN t.errors ELSE NoArray, Unset, fresh)
     EXCEPT !.negated = ~t.negated]

\* The instance `get not()` returns for view t: a new instance over the same
\* target, sharing errors and maxErrors in soft mode, its flag the inverse.
NotClone(t, fresh) ==
    [Construct(t.target,
               Opts(t.soft, t.maxErrors),
               IF t.soft THEN t.errors ELSE NoArray,
               IF t.soft THEN t.maxErrors ELSE Unset,
               fresh)
     EXCEPT !.negated = ~t.negated]

----------------------------------------------------------------------------
(* Errors and messages *)

Error(message) == [kind |-> "Error", message |-> message]
NoError == [kind |-> "none"]

\* A message that never says "not ".
NotWordNever(negated) == <<>>

\* ${this.negated ? "not " : ""}
NotWord(negated) == IF negated THEN <<"not ">> ELSE <<>>

CapacityError(n) ==
    Error(<<"Maximum number of errors", " (">> \o NumStr(n)
          \o <<") reached in soft mode. Further assertions throw immediately.">>)

PredicateError == Error(<<"predicate error">>)

\* handleError without the test of this.soft: every view collects.
handleErrorAlwaysCollects(t, errs, err) ==
    IF t.maxErrors.def /\ Len(errs) >= t.maxErrors.n
    THEN [thrown |-> CapacityError(t.maxErrors.n), errors |-> errs]
    ELSE [thrown |-> NoError, errors |-> Append(errs, err)]

\* handleError that raises in soft mode too.
handleErrorAlwaysThrows(t, errs, err) == [thrown |-> err, errors |-> errs]

\* handleError that puts the new error first: this.errors.unshift(err).
handleErrorPrepends(t, errs, err) ==
    IF t.soft
    THEN IF t.maxErrors.def /\ Len(errs) >= t.maxErrors.n
         THEN [thrown |-> CapacityError(t.maxErrors.n), errors |-> errs]
         ELSE [thrown |-> NoError, errors |-> <<err>> \o errs]
    ELSE [thrown |-> err, errors |-> errs]

\* handleError that empties the array when it raises at capacity.
handleErrorResets(t, errs, err) ==
    IF t.soft
    THEN IF t.maxErrors.def /\ Len(errs) >= t.maxErrors.n
         THEN [thrown |-> CapacityError(t.maxErrors.n), errors |-> <<>>]
         ELSE [thrown |-> NoError, errors |-> Append(errs, err)]
    ELSE [thrown |-> err, errors |-> errs]

\* handleError with > for >=: one error more than maxErrors is collected.
handleErrorOffByOne(t, errs, err) ==
    IF t.soft
    THEN IF t.maxErrors.def /\ Len(errs) > t.maxErrors.n
         THEN [thrown |-> CapacityError(t.maxErrors.n), errors |-> errs]
         ELSE [thrown |-> NoError, errors |-> Append(errs, err)]
    ELSE [thrown |-> err, errors |-> errs]

\* private handleError(err), on a view t whose errors array holds errs: what
\* is raised (NoError when it returns this) and what the array holds after.
handleError(t, errs, err) ==
    IF t.soft
    THEN IF t.maxErrors.def /\ Len(errs) >= t.maxErrors.n
         THEN [thrown |-> CapacityError(t.maxErrors.n), errors |-> errs]
         ELSE [thrown |-> NoError, errors |-> Append(errs, err)]
    ELSE [thrown |-> err, errors |-> errs]

\* The test left out: every check goes to handleError.
FailsAlways(match, negated) == TRUE

\* The test without the negation flag: if (!match).
FailsIgnoringNegation(match, negated) == ~match

\* if (match === this.negated): the check reports a failure.
Fails(match, negated) == match = negated

----------------------------------------------------------------------------
(* The predicate and the message of each check *)

\* toHaveKey with `value != null` for `value !== undefined`.
toHaveKeyMatchLoose(value) == value \notin {Undef, Null}

toHaveKeyMatch(value) == value # Undef

toHaveKeyMessage(path, negated) ==
    <<"Expected key '">> \o path \o <<"' ">> \o NotWord(negated) \o <<"to exist">>

toBeTypeMatch(value, type) == ActualType(value) = type

toBeTypeMessage(path, negated, type, value) ==
    <<"Expected '">> \o path \o <<"' ">> \o NotWord(negated)
    \o <<"to be type", " '", type, "', but got '", ActualType(value), "'">>

toBeDefinedMatch(value) == value # Undef

toBeDefinedMessage(path, negated) ==
    <<"Expected '">> \o path \o <<"' ">> \o NotWord(negated) \o <<"to be defined">>

\* toBeNull with `value == null` for `value === null`.
toBeNullMatchLoose(value) == value \in {Undef, Null}

toBeNullMatch(value) == value = Null

toBeNullMessage(path, negated) ==
    <<"Expected '">> \o path \o <<"' ">> \o NotWord(negated) \o <<"to be null">>

toBeTruthyMatch(value) == Truthy(value)

toBeTruthyMessage(path, negated) ==
    <<"Expected '">> \o path \o <<"' ">> \o NotWord(negated) \o <<"to be truthy">>

toBeFalsyMatch(value) == ~Truthy(value)

toBeFalsyMessage(path, negated) ==
    <<"Expected '">> \o path \o <<"' ">> \o NotWord(negated) \o <<"to be falsy">>

\* toMatchValue that does not look at its options.
toMatchValueMatchPlain(value, expected, caseInsensitive) ==
    JSONstringify(value) = JSONstringify(expected)

\* options is the caseInsensitive flag (false when no options are passed).
toMatchValueMatch(value, expected, caseInsensitive) ==
    IF caseInsensitive /\ value.k = "string" /\ expected.k = "string"
    THEN toLowerCase(value.sv) = toLowerCase(expected.sv)
    ELSE JSONstringify(value) = JSONstringify(expected)

toMatchValueMessage(path, negated, expected, caseInsensitive, value) ==
    <<"Expected value at '">> \o path \o <<"' ">> \o NotWord(negated)
    \o <<"to equal", " ">> \o Shown(expected)
    \o (IF caseInsensitive THEN <<" (case insensitive)">> ELSE <<>>)
    \o <<", but got ">> \o Shown(value)

toContainValueMatch(value, expected) ==
    IF value.k = "array"
    THEN \E i \in 1..Len(value.av) :
             JSONstringify(value.av[i]) = JSONstringify(expected)
    ELSE IF value.k = "string" THEN Includes(value.sv, ToStr(expected))
    ELSE FALSE

toContainValueMessage(path, negated, expected, value) ==
    <<"Expected value at '">> \o path \o <<"' ">> \o NotWord(negated)
    \o <<"to contain", " ">> \o Shown(expected) \o <<", but got ">> \o Shown(value)

\* Number(v), for the comparison v > num without the typeof test: NoNumber
\* stands for NaN, which compares false with every number.
NoNumber == [def |-> FALSE]

ToNumber(v) ==
    CASE v.k = "number" -> [def |-> TRUE, n |-> v.nv]
      [] v.k = "null" -> [def |-> TRUE, n |-> 0]
      [] v.k = "boolean" -> [def |-> TRUE, n |-> IF v.bv THEN 1 ELSE 0]
      [] v.k = "string" /\ (\A i \in 1..Len(v.sv) : v.sv[i] \in Digits) ->
            [def |-> TRUE, n |-> IndexVal(v.sv)]
      [] OTHER -> NoNumber

\* toBeGreaterThan without `typeof value === "number" &&`.
toBeGreaterThanMatchCoerced(value, num) ==
    ToNumber(value).def /\ ToNumber(value).n > num

toBeGreaterThanMatch(value, num) == value.k = "number" /\ value.nv > num

toBeGreaterThanMessage(path, negated, num, value) ==
    <<"Expected value at '">> \o path \o <<"' ">> \o NotWord(negated)
    \o <<"to be greater than", " ">> \o NumStr(num) \o <<", but got ">> \o Shown(value)

toBeLessThanMatch(value, num) == value.k = "number" /\ value.nv < num

toBeLessThanMessage(path, negated, num, value) ==
    <<"Expected value at '">> \o path \o <<"' ">> \o NotWord(negated)
    \o <<"to be less than", " ">> \o NumStr(num) \o <<", but got ">> \o Shown(value)

\* values is the candidate list, a sequence of values.
toBeOneOfMatch(value, values) ==
    \E i \in 1..Len(values) : JSONstringify(values[i]) = JSONstringify(value)

toBeOneOfMessage(path, negated, values, value) ==
    <<"Expected value at '">> \o path \o <<"' ">> \o NotWord(negated)
    \o <<"to be one of", " ">> \o Shown(Arr(values)) \o <<", but got ">> \o Shown(value)

\* The caller's predicates, by name: what predicate(value) does.
\*   "isNumber"  (v) => typeof v === "number"
\*   "isMissing" (v) => v === undefined
\*   "throws"    () => { throw new Error("predicate error") }
PredicateThrows(predicate, value) == predicate = "throws"

PredicateResult(predicate, value) ==
    CASE predicate = "isNumber" -> TypeOf(value) = "number"
      [] predicate = "isMissing" -> value = Undef
      [] OTHER -> FALSE

toSatisfyMessage(path, negated) ==
    <<"Expected '">> \o path \o <<"' ">> \o NotWord(negated)
    \o <<"to satisfy predicate", ".">>

----------------------------------------------------------------------------
(* Bounds and the inputs the calls are drawn from *)

MaxErrs == 2     \* the errors an array holds, and the largest maxErrors

\* { a: 1, s: "Ab", n: null }
DocA == Obj(<<Prop(<<"a">>, Num(1)), Prop(<<"s">>, Str(<<"A", "b">>)),
              Prop(<<"n">>, Null)>>)

Docs == {DocA}

\* "a", "s", "x"
Paths == {<<"a">>, <<"s">>, <<"x">>}

\* The checks of one test come from one family.
Families ==
    {{"toHaveKey", "toBeType", "toBeDefined"},
     {"toBeNull", "toBeTruthy", "toBeFalsy"},
     {"toMatchValue", "toContainValue", "toBeOneOf"},
     {"toBeGreaterThan", "toBeLessThan", "toSatisfy"}}

Tests == {[path |-> p, kinds |-> f] : p \in Paths, f \in Families}

Kinds == UNION Families

Types == {"number"}
Expected == {Str(<<"a", "b">>)}
Nums == {0}
Candidates == {<<Num(1), Null>>}
Predicates == {"isNumber", "throws"}

\* The options a caller passes to an entry point: soft left out or false, or
\* true; maxErrors left out, or 0..MaxErrs.
CallerOpts ==
    {Opts(sf, m) : sf \in BOOLEAN, m \in {Unset} \cup {Max(n) : n \in 0..MaxErrs}}

\* assertJson(data, opts): new JsonAssertion(data, opts)
assertJson(data, opts, fresh) == Construct(data, opts, NoArray, Unset, fresh)

\* assertJsonSoft that hands the caller's options on as they are.
assertJsonSoftAsGiven(data, opts, fresh) ==
    Construct(data, opts, NoArray, Unset, fresh)

\* assertJsonSoft(data, opts): new JsonAssertion(data, { ...opts, soft: true })
assertJsonSoft(data, opts, fresh) ==
    Construct(data, Opts(TRUE, opts.maxErrors), NoArray, Unset, fresh)

----------------------------------------------------------------------------
(* The calls *)

NotRun == [done |-> FALSE]
Ran(value) == [done |-> TRUE, value |-> value]

ResolverIdle == rdoc = Undef /\ rpath = <<>> /\ rres = NotRun

NoCall == [op |-> "new", recv |-> "none", negated |-> FALSE, match |-> FALSE,
           failed |-> FALSE, fault |-> FALSE]

\* A call of method op on view r; fault: the caller's predicate raised.
Called(op, r, match, fault) ==
    [op |-> op, recv |-> r, negated |-> views[r].negated, match |-> match,
     fault |-> fault,
     failed |-> op \in Kinds /\ ~fault /\ Fails(match, views[r].negated)]

\* The views a call can be made on: the base view, and the value of the
\* chain expression.
Receivers == {"base"} \cup ({cur} \ {"none"})

\* What the caller can still reach once the chain expression has value c:
\* the clone only as that value, an array only through a view or as the
\* array getErrors() returned.
KeptViews(vs, c) ==
    [n \in {"base"} \cup ({c} \ {"none"}) |-> vs[n]]

KeptArrays(as, vs, sn) ==
    [a \in (DOMAIN as) \cap ({vs[n].errors : n \in DOMAIN vs} \cup {sn}) |-> as[a]]

Init ==
    /\ doc \in Docs
    /\ test \in Tests
    /\ \E opts \in CallerOpts :
           \/ views = ("base" :> assertJson(doc, opts, "base"))
           \/ views = ("base" :> assertJsonSoft(doc, opts, "base"))
    /\ arrays = ("base" :> <<>>)
    /\ cur = "base"
    /\ snap = "none"
    /\ thrown = NoError
    /\ lineage = <<>>
    /\ last = NoCall
    /\ ResolverIdle

\* A check method called on view r: with match from the method's predicate,
\*   if (match === this.negated) return this.handleError(err); return this;
Check(op, r, match, err) ==
    LET t == views[r]
        errs == arrays[t.errors]
        out == IF Fails(match, t.negated)
               THEN handleError(t, errs, err)
               ELSE [thrown |-> NoError, errors |-> errs]
        c == IF out.thrown = NoError THEN r ELSE "none"
    IN /\ op \in test.kinds
       /\ Len(out.errors) <= MaxErrs
       /\ cur' = c
       /\ thrown' = out.thrown
       /\ views' = KeptViews(views, c)
       /\ arrays' = KeptArrays([arrays EXCEPT ![t.errors] = out.errors],
                               KeptViews(views, c), snap)
       /\ lineage' = IF c = "clone" THEN <<lineage[Len(lineage)]>> ELSE <<>>
       /\ last' = Called(op, r, match, FALSE)
       /\ UNCHANGED <<doc, test, snap, rdoc, rpath, rres>>

\* get not() that inverts the flag of the view itself and returns it:
\*   this.negated = !this.negated; return this;
NotInPlace(r) ==
    /\ cur' = r
    /\ thrown' = NoError
    /\ views' = KeptViews([views EXCEPT ![r].negated = ~@], r)
    /\ arrays' = KeptArrays(arrays, KeptViews(views, r), snap)
    /\ lineage' = IF r = "clone" THEN <<lineage[Len(lineage)]>> ELSE <<>>
    /\ last' = Called("not", r, FALSE, FALSE)
    /\ UNCHANGED <<doc, test, snap, rdoc, rpath, rres>>

\* get not(), on view r: the clone is the chain's value now.
Not(r) ==
    LET clone == NotClone(views[r], "clone")
        vs == ("base" :> views["base"]) @@ ("clone" :> clone)
        as == IF clone.errors = "clone"
              THEN [a \in (DOMAIN arrays) \cup {"clone"} |->
                        IF a = "clone" THEN <<>> ELSE arrays[a]]
              ELSE arrays
    IN /\ cur' = "clone"
       /\ thrown' = NoError
       /\ views' = vs
       /\ arrays' = KeptArrays(as, vs, snap)
       /\ lineage' = IF r = "clone" /\ last.op = "not"
                     THEN <<lineage[Len(lineage)], views[r]>>
                     ELSE <<views[r]>>
       /\ last' = Called("not", r, FALSE, FALSE)
       /\ UNCHANGED <<doc, test, snap, rdoc, rpath, rres>>

\* getErrors() that returns this.errors itself.
getErrorsResultAlias(t, fresh) == t.errors

\* The array getErrors() returns on a view t: the copy [...this.errors],
\* a new array, named fresh.
getErrorsResult(t, fresh) == fresh

\* getErrors(), on view r: the caller keeps the array, the chain is over.
getErrors(r) ==
    LET t == views[r]
        sn == getErrorsResult(t, "snap")
        as == [a \in (DOMAIN arrays) \cup {"snap"} |->
                   IF a = "snap" THEN arrays[t.errors] ELSE arrays[a]]
    IN /\ cur' = "none"
       /\ thrown' = NoError
       /\ snap' = sn
       /\ views' = KeptViews(views, "none")
       /\ arrays' = KeptArrays(as, KeptViews(views, "none"), sn)
       /\ lineage' = <<>>
       /\ last' = Called("getErrors", r, FALSE, FALSE)
       /\ UNCHANGED <<doc, test, rdoc, rpath, rres>>

toHaveKey(r, path) ==
    LET value == getValueAtPath(views[r].target, path)
    IN Check("toHaveKey", r, toHaveKeyMatch(value),
             Error(toHaveKeyMessage(path, views[r].negated)))

toBeType(r, path, type) ==
    LET value == getValueAtPath(views[r].target, path)
    IN Check("toBeType", r, toBeTypeMatch(value, type),
             Error(toBeTypeMessage(path, views[r].negated, type, value)))

toBeDefined(r, path) ==
    LET value == getValueAtPath(views[r].target, path)
    IN Check("toBeDefined", r, toBeDefinedMatch(value),
             Error(toBeDefinedMessage(path, views[r].negated)))

toBeNull(r, path) ==
    LET value == getValueAtPath(views[r].target, path)
    IN Check("toBeNull", r, toBeNullMatch(value),
             Error(toBeNullMessage(path, views[r].negated)))

toBeTruthy(r, path) ==
    LET value == getValueAtPath(views[r].target, path)
    IN Check("toBeTruthy", r, toBeTruthyMatch(value),
             Error(toBeTruthyMessage(path, views[r].negated)))

toBeFalsy(r, path) ==
    LET value == getValueAtPath(views[r].target, path)
    IN Check("toBeFalsy", r, toBeFalsyMatch(value),
             Error(toBeFalsyMessage(path, views[r].negated)))

toMatchValue(r, path, expected, caseInsensitive) ==
    LET value == getValueAtPath(views[r].target, path)
    IN Check("toMatchValue", r,
             toMatchValueMatch(value, expected, caseInsensitive),
             Error(toMatchValueMessage(path, views[r].negated, expected,
                                       caseInsensitive, value)))

toContainValue(r, path, expected) ==
    LET value == getValueAtPath(views[r].target, path)
    IN Check("toContainValue", r, toContainValueMatch(value, expected),
             Error(toContainValueMessage(path, views[r].negated, expected, value)))

toBeGreaterThan(r, path, num) ==
    LET value == getValueAtPath(views[r].target, path)
    IN Check("toBeGreaterThan", r, toBeGreaterThanMatch(value, num),
             Error(toBeGreaterThanMessage(path, views[r].negated, num, value)))

toBeLessThan(r, path, num) ==
    LET value == getValueAtPath(views[r].target, path)
    IN Check("toBeLessThan", r, toBeLessThanMatch(value, num),
             Error(toBeLessThanMessage(path, views[r].negated, num, value)))

toBeOneOf(r, path, values) ==
    LET value == getValueAtPath(views[r].target, path)
    IN Check("toBeOneOf", r, toBeOneOfMatch(value, values),
             Error(toBeOneOfMessage(path, views[r].negated, values, value)))

\* toSatisfy whose catch block hands the predicate's error to handleError.
toSatisfyCollects(r, path, predicate) ==
    LET value == getValueAtPath(views[r].target, path)
        t == views[r]
        out == handleError(t, arrays[t.errors], PredicateError)
        c == IF out.thrown = NoError THEN r ELSE "none"
    IN IF PredicateThrows(predicate, value)
       THEN /\ "toSatisfy" \in test.kinds
            /\ Len(out.errors) <= MaxErrs
            /\ cur' = c
            /\ thrown' = out.thrown
            /\ views' = KeptViews(views, c)
            /\ arrays' = KeptArrays([arrays EXCEPT ![t.errors] = out.errors],
                                    KeptViews(views, c), snap)
            /\ lineage' = IF c = "clone" THEN <<lineage[Len(lineage)]>> ELSE <<>>
            /\ last' = Called("toSatisfy", r, FALSE, TRUE)
            /\ UNCHANGED <<doc, test, snap, rdoc, rpath, rres>>
       ELSE Check("toSatisfy", r, PredicateResult(predicate, value),
                  Error(toSatisfyMessage(path, views[r].negated)))

\* toSatisfy(path, predicate): what the predicate raises is raised again,
\* before the result is looked at.
toSatisfy(r, path, predicate) ==
    LET value == getValueAtPath(views[r].target, path)
    IN IF PredicateThrows(predicate, value)
       THEN /\ "toSatisfy" \in test.kinds
            /\ cur' = "none"
            /\ thrown' = PredicateError
            /\ views' = KeptViews(views, "none")
            /\ arrays' = KeptArrays(arrays, KeptViews(views, "none"), snap)
            /\ lineage' = <<>>
            /\ last' = Called("toSatisfy", r, FALSE, TRUE)
            /\ UNCHANGED <<doc, test, snap, rdoc, rpath, rres>>
       ELSE Check("toSatisfy", r, PredicateResult(predicate, value),
                  Error(toSatisfyMessage(path, views[r].negated)))

\* The caller changes the array getErrors() gave it: errors.pop(), in a
\* statement of its own.
SnapshotPop ==
    /\ snap # "none"
    /\ Len(arrays[snap]) > 0
    /\ cur' = "none"
    /\ thrown' = NoError
    /\ views' = KeptViews(views, "none")
    /\ arrays' = KeptArrays([arrays EXCEPT ![snap] = SubSeq(@, 1, Len(@) - 1)],
                            KeptViews(views, "none"), snap)
    /\ lineage' = <<>>
    /\ last' = [NoCall EXCEPT !.op = "pop"]
    /\ UNCHANGED <<doc, test, snap, rdoc, rpath, rres>>

Next ==
    \/ \E r \in Receivers : Not(r)
    \/ \E r \in Receivers : getErrors(r)
    \/ \E r \in Receivers : toHaveKey(r, test.path)
    \/ \E r \in Receivers, ty \in Types : toBeType(r, test.path, ty)
    \/ \E r \in Receivers : toBeDefined(r, test.path)
    \/ \E r \in Receivers : toBeNull(r, test.path)
    \/ \E r \in Receivers : toBeTruthy(r, test.path)
    \/ \E r \in Receivers : toBeFalsy(r, test.path)
    \/ \E r \in Receivers, e \in Expected, ci \in BOOLEAN :
           toMatchValue(r, test.path, e, ci)
    \/ \E r \in Receivers, e \in Expected : toContainValue(r, test.path, e)
    \/ \E r \in Receivers, n \in Nums : toBeGreaterThan(r, test.path, n)
    \/ \E r \in Receivers, n \in Nums : toBeLessThan(r, test.path, n)
    \/ \E r \in Receivers, c \in Candidates : toBeOneOf(r, test.path, c)
    \/ \E r \in Receivers, f \in Predicates : toSatisfy(r, test.path, f)
    \/ SnapshotPop

Spec == Init /\ [][Next]_vars

-----------------------------------------------------------------------------
(* The entry points: the same calls, on a session whose test remembers the *)
(* entry point it was made with and the options it passed.                 *)

\* assertJson(data): the options argument left out.
NoOptions == Opts(FALSE, Unset)

EntryPoints == {"assertJson", "assertJsonSoft"}

\* "a", "x"
EntryPaths == {<<"a">>, <<"x">>}

EntryTests ==
    {[path |-> p, kinds |-> f, entry |-> e, opts |-> o] :
        p \in EntryPaths, f \in Families, e \in EntryPoints, o \in CallerOpts}

InitEntry ==
    /\ doc \in Docs
    /\ test \in EntryTests
    /\ views = ("base" :> IF test.entry = "assertJsonSoft"
                          THEN assertJsonSoft(doc, test.opts, "base")
                          ELSE assertJson(doc, test.opts, "base"))
    /\ arrays = ("base" :> <<>>)
    /\ cur = "base"
    /\ snap = "none"
    /\ thrown = NoError
    /\ lineage = <<>>
    /\ last = NoCall
    /\ ResolverIdle

SpecEntry == InitEntry /\ [][Next]_vars

----------------------------------------------------------------------------
(* The resolver on its own: getValueAtPath(rdoc, rpath) for the documents  *)
(* and the path strings below.                                             *)

MaxPieces == 4   \* the pieces a path string is put together from

\* { a: 1, s: "Ab", n: null, r: [{ a: 2 }, "b"] }
DocR == Obj(<<Prop(<<"a">>, Num(1)), Prop(<<"s">>, Str(<<"A", "b">>)),
              Prop(<<"n">>, Null),
              Prop(<<"r">>, Arr(<<Obj(<<Prop(<<"a">>, Num(2))>>), Str(<<"b">>)>>))>>)

\* { "0": "z", a: { "0": true, a: false, r: [] } }
DocK == Obj(<<Prop(<<"0">>, Str(<<"z">>)),
              Prop(<<"a">>, Obj(<<Prop(<<"0">>, Bool(TRUE)),
                                  Prop(<<"a">>, Bool(FALSE)),
                                  Prop(<<"r">>, Arr(<<>>))>>))>>)

\* [{ a: 1 }, [0]]
DocL == Arr(<<Obj(<<Prop(<<"a">>, Num(1))>>), Arr(<<Num(0)>>)>>)

ResolverDocs == {DocR, DocK, DocL}

Pieces ==
    {<<"a">>, <<"s">>, <<"r">>, <<"n">>, <<".">>, <<"[">>, <<"]">>, <<"0">>,
     <<"1">>, <<"[", "0", "]">>, LengthName, ToStringName}

RECURSIVE Flatten(_)
Flatten(ps) == IF Len(ps) = 0 THEN <<>> ELSE Head(ps) \o Flatten(Tail(ps))

SessionIdle ==
    /\ doc = DocA
    /\ test = [path |-> <<"a">>, kinds |-> {}]
    /\ views = ("base" :> assertJson(DocA, Opts(FALSE, Unset), "base"))
    /\ arrays = ("base" :> <<>>)
    /\ cur = "base"
    /\ snap = "none"
    /\ thrown = NoError
    /\ lineage = <<>>
    /\ last = NoCall

InitResolver ==
    /\ SessionIdle
    /\ rdoc \in ResolverDocs
    /\ \E n \in 0..MaxPieces : \E ps \in [1..n -> Pieces] : rpath = Flatten(ps)
    /\ rres = NotRun

Resolve ==
    /\ rres = NotRun
    /\ rres' = Ran(getValueAtPath(rdoc, rpath))
    /\ UNCHANGED <<doc, test, views, arrays, cur, snap, thrown, lineage, last,
                   rdoc, rpath>>

NextResolver == Resolve

SpecResolver == InitResolver /\ [][NextResolver]_vars

----------------------------------------------------------------------------
(* The checks on their own: one test of one check kind, with one path and  *)
(* one list of arguments, made on the base view and on the views .not      *)
(* gives, over a document that holds a value of every kind.                *)

\* { a: 1, s: "Ab" } and the same mapping written { s: "Ab", a: 1 }
MapAS == Obj(<<Prop(<<"a">>, Num(1)), Prop(<<"s">>, Str(<<"A", "b">>))>>)
MapSA == Obj(<<Prop(<<"s">>, Str(<<"A", "b">>)), Prop(<<"a">>, Num(1))>>)

\* { n: null, z: 0, f: false, e: "", s: "Ab", v: 5, d: "5",
\*   o: { a: 1, s: "Ab" }, r: [1, { a: 1, s: "Ab" }, null, "aB"],
\*   t: true, q: [], m: {} }
DocV ==
    Obj(<<Prop(<<"n">>, Null), Prop(<<"z">>, Num(0)), Prop(<<"f">>, Bool(FALSE)),
          Prop(<<"e">>, Str(<<>>)), Prop(<<"s">>, Str(<<"A", "b">>)),
          Prop(<<"v">>, Num(5)), Prop(<<"d">>, Str(<<"5">>)),
          Prop(<<"o">>, MapAS),
          Prop(<<"r">>, Arr(<<Num(1), MapAS, Null, Str(<<"a", "B">>)>>)),
          Prop(<<"t">>, Bool(TRUE)), Prop(<<"q">>, Arr(<<>>)),
          Prop(<<"m">>, Obj(<<>>))>>)

\* The keys of DocV, and "x", which it does not hold.
PathsV ==
    {<<"n">>, <<"z">>, <<"f">>, <<"e">>, <<"s">>, <<"v">>, <<"d">>, <<"o">>,
     <<"r">>, <<"t">>, <<"q">>, <<"m">>, <<"x">>}

\* PrimitiveType
TypesV ==
    {"string", "number", "boolean", "object", "array", "undefined", "null"}

\* The values a test passes as `expected`.
ExpectedV ==
    {Undef, Null, Bool(FALSE), Num(0), Num(1), Num(5), Str(<<>>), Str(<<"5">>),
     Str(<<"A", "b">>), Str(<<"a", "B">>), Str(<<"b">>), MapAS, MapSA,
     Arr(<<Num(1), MapAS, Null, Str(<<"a", "B">>)>>),
     Arr(<<Num(1), MapSA, Null, Str(<<"a", "B">>)>>)}

NumsV == {0, 5, 6}

\* The lists a test passes to toBeOneOf.
CandidatesV ==
    {<<>>, <<Num(5), Null>>, <<Undef, Str(<<"A", "b">>)>>, <<MapSA>>,
     <<Num(0), MapAS>>, <<Bool(FALSE), Str(<<>>)>>}

\* A test: its check kind, its path, and the arguments it passes (those the
\* kind does not take are at their first value).
TestOf(op, path, type, expected, ci, num, values) ==
    [path |-> path, kinds |-> {op}, type |-> type, expected |-> expected,
     caseInsensitive |-> ci, num |-> num, values |-> values]

TestsV ==
    UNION {
      {TestOf(op, p, "string", Undef, FALSE, 0, <<>>) :
          op \in {"toHaveKey", "toBeDefined", "toBeNull", "toBeTruthy",
                  "toBeFalsy"}, p \in PathsV},
      {TestOf("toBeType", p, ty, Undef, FALSE, 0, <<>>) :
          p \in PathsV, ty \in TypesV},
      {TestOf("toMatchValue", p, "string", e, ci, 0, <<>>) :
          p \in PathsV, e \in ExpectedV, ci \in BOOLEAN},
      {TestOf("toContainValue", p, "string", e, FALSE, 0, <<>>) :
          p \in PathsV, e \in ExpectedV},
      {TestOf(op, p, "string", Undef, FALSE, n, <<>>) :
          op \in {"toBeGreaterThan", "toBeLessThan"}, p \in PathsV, n \in NumsV},
      {TestOf("toBeOneOf", p, "string", Undef, FALSE, 0, c) :
          p \in PathsV, c \in CandidatesV}}

\* assertJson(data) and assertJson(data, { soft: true })
OptsV == {Opts(FALSE, Unset), Opts(TRUE, Unset)}

InitChecks ==
    /\ doc = DocV
    /\ test \in TestsV
    /\ \E opts \in OptsV : views = ("base" :> assertJson(doc, opts, "base"))
    /\ arrays = ("base" :> <<>>)
    /\ cur = "base"
    /\ snap = "none"
    /\ thrown = NoError
    /\ lineage = <<>>
    /\ last = NoCall
    /\ ResolverIdle

NextChecks ==
    \/ \E r \in Receivers : Not(r)
    \/ \E r \in Receivers : toHaveKey(r, test.path)
    \/ \E r \in Receivers : toBeType(r, test.path, test.type)
    \/ \E r \in Receivers : toBeDefined(r, test.path)
    \/ \E r \in Receivers : toBeNull(r, test.path)
    \/ \E r \in Receivers : toBeTruthy(r, test.path)
    \/ \E r \in Receivers : toBeFalsy(r, test.path)
    \/ \E r \in Receivers :
           toMatchValue(r, test.path, test.expected, test.caseInsensitive)
    \/ \E r \in Receivers : toContainValue(r, test.path, test.expected)
    \/ \E r \in Receivers : toBeGreaterThan(r, test.path, test.num)
    \/ \E r \in Receivers : toBeLessThan(r, test.path, test.num)
    \/ \E r \in Receivers : toBeOneOf(r, test.path, test.values)

SpecChecks == InitChecks /\ [][NextChecks]_vars

----------------------------------------------------------------------------
(* What the claims speak of *)

SoftSession == views["base"].soft

\* The phrase that names a check kind in its failure message.
Phrase(op) ==
    CASE op = "toHaveKey" -> "to exist"
      [] op = "toBeType" -> "to be type"
      [] op = "toBeDefined" -> "to be defined"
      [] op = "toBeNull" -> "to be null"
      [] op = "toBeTruthy" -> "to be truthy"
      [] op = "toBeFalsy" -> "to be falsy"
      [] op = "toMatchValue" -> "to equal"
      [] op = "toContainValue" -> "to contain"
      [] op = "toBeGreaterThan" -> "to be greater than"
      [] op = "toBeLessThan" -> "to be less than"
      [] op = "toBeOneOf" -> "to be one of"
      [] op = "toSatisfy" -> "to satisfy predicate"

\* e is the AssertionFailure of a check of kind op made on a view with the
\* given negation flag: its message holds the kind's phrase, after "not "
\* exactly when the view was negated.
IsFailureOf(e, op, negated) ==
    /\ e.kind = "Error"
    /\ \E i \in 2..Len(e.message) :
           /\ e.message[i] = Phrase(op)
           /\ negated <=> e.message[i - 1] = "not "

\* e is the CapacityExceeded error of a session with maxErrors = n.
IsCapacityExceeded(e, n) ==
    /\ e.kind = "Error"
    /\ e.message[1] = "Maximum number of errors"
    /\ \E i \in 2..Len(e.message) :
           SubSeq(e.message, i, i + Len(NumStr(n)) - 1) = NumStr(n)

\* The last call was a check, and its outcome was a failure.
FailedCheck(l) == l.op \in Kinds /\ l.failed

----------------------------------------------------------------------------
(* C1: in strict mode a failing check raises its AssertionFailure at once, *)
(* so the chain has no value to go on with, and no array of any view (nor  *)
(* what getErrors returned) ever holds an error.                           *)
C1_StrictRaisesAndRecordsNothing ==
    ~SoftSession =>
        /\ \A n \in DOMAIN views :
               ~views[n].soft /\ arrays[views[n].errors] = <<>>
        /\ snap # "none" => arrays[snap] = <<>>
        /\ FailedCheck(last) =>
               IsFailureOf(thrown, last.op, last.negated) /\ cur = "none"

C1_Witness ==
    /\ ~SoftSession
    /\ FailedCheck(last)
    /\ last.recv = "clone"
    /\ snap # "none"

(* C2: in soft mode, with maxErrors unset or more than the errors recorded, *)
(* a failing check does not raise: it appends its one failure to the end   *)
(* of the error sequence and returns the view it was called on.            *)
C2_SoftRecordsAndReturns ==
    [][FailedCheck(last') =>
        LET r == last'.recv
            t == views[r]
            errs == arrays[t.errors]
        IN (t.soft /\ (~t.maxErrors.def \/ Len(errs) < t.maxErrors.n)) =>
               /\ thrown' = NoError
               /\ cur' = r
               /\ views'[r] = t
               /\ Len(arrays'[t.errors]) = Len(errs) + 1
               /\ SubSeq(arrays'[t.errors], 1, Len(errs)) = errs
               /\ IsFailureOf(arrays'[t.errors][Len(errs) + 1], last'.op,
                              last'.negated)]_vars

C2_Witness ==
    /\ SoftSession
    /\ FailedCheck(last)
    /\ last.recv = "clone"
    /\ cur = "clone"
    /\ thrown = NoError
    /\ Len(arrays["base"]) = 2

(* C3: in soft mode with maxErrors = N and N failures recorded, a failing  *)
(* check raises CapacityExceeded (its message names N) and not its own     *)
(* failure, and the N recorded failures stay as they are.                  *)
C3_CapacityExceeded ==
    [][FailedCheck(last') =>
        LET t == views[last'.recv]
            errs == arrays[t.errors]
        IN (t.soft /\ t.maxErrors.def /\ Len(errs) = t.maxErrors.n) =>
               /\ IsCapacityExceeded(thrown', t.maxErrors.n)
               /\ ~IsFailureOf(thrown', last'.op, last'.negated)
               /\ cur' = "none"
               /\ arrays'[t.errors] = errs
               /\ Len(arrays'[t.errors]) = t.maxErrors.n]_vars

C3_Witness ==
    /\ SoftSession
    /\ FailedCheck(last)
    /\ views["base"].maxErrors = Max(2)
    /\ Len(arrays["base"]) = 2
    /\ thrown # NoError
    /\ IsCapacityExceeded(thrown, 2)

(* C4: negation applies to exactly one check. When a negated check A, made *)
(* on v.not, has returned normally, the check B chained onto what it       *)
(* returned decides as B on v decides: lineage[1] is v, and B resolves the *)
(* same path in the same document, so its predicate gives the same match.  *)
C4_NegationAppliesToOneCheck ==
    [][(/\ last.op \in Kinds /\ last.recv = "clone" /\ last.negated
        /\ cur = "clone" /\ thrown = NoError
        /\ last'.op \in Kinds /\ last'.recv = "clone" /\ ~last'.fault)
       => last'.failed = Fails(last'.match, lineage[1].negated)]_vars

\* e was made by a check on a negated view.
SaysNot(e) == \E i \in 1..Len(e.message) : e.message[i] = "not "

(* C5: in soft mode every view got through .not, at any depth, is a view   *)
(* of the base view's session: same document, soft, same maxErrors, the    *)
(* same error array. So a failure recorded through the derived view is the *)
(* next element of the array the base view reads, and getErrors() on the   *)
(* base view returns that array's elements in their order.                 *)
C5_NotViewsShareSession ==
    [][SoftSession =>
        /\ \A n \in DOMAIN views' :
               /\ views'[n].target = views["base"].target
               /\ views'[n].soft
               /\ views'[n].maxErrors = views["base"].maxErrors
               /\ views'[n].errors = views["base"].errors
        /\ (FailedCheck(last') /\ last'.recv = "clone" /\ thrown' = NoError) =>
               LET errs == arrays[views["base"].errors]
                   now == arrays'[views'["base"].errors]
               IN /\ Len(now) = Len(errs) + 1
                  /\ SubSeq(now, 1, Len(errs)) = errs
                  /\ IsFailureOf(now[Len(now)], last'.op, last'.negated)
        /\ (last'.op = "getErrors" /\ last'.recv = "base") =>
               arrays'[snap'] = arrays[views["base"].errors]]_vars

C5_Witness ==
    /\ SoftSession
    /\ last.op = "getErrors"
    /\ last.recv = "base"
    /\ Len(arrays[snap]) = 2
    /\ SaysNot(arrays[snap][1])
    /\ ~SaysNot(arrays[snap][2])

(* C6: a check whose predicate does not raise reports a failure (raises, or *)
(* records one) exactly when match = negated, that is when passed XOR      *)
(* negated is false; on a view with the other flag the same match would    *)
(* be reported the other way.                                              *)
C6_FailureIffNotPassedXorNegated ==
    [][(last'.op \in Kinds /\ ~last'.fault) =>
        LET t == views[last'.recv]
            reported == \/ thrown' # NoError
                        \/ arrays'[t.errors] # arrays[t.errors]
            xor == last'.match # t.negated
        IN /\ reported <=> ~xor
           /\ last'.failed <=> reported
           /\ Fails(last'.match, ~t.negated) <=> ~reported]_vars

C6_Witness ==
    /\ last.op = "toSatisfy"
    /\ ~last.fault
    /\ last.negated
    /\ last.match
    /\ last.failed
    /\ thrown # NoError

(* C7: view.not.not is a view with the flag of view, over the same         *)
(* document, mode and maxErrors, and in soft mode the same error array; a  *)
(* check made on it fails exactly when it would on view, with the message  *)
(* view would give. lineage[1] is view.                                    *)
C7_NotNotIsIdentity ==
    [][(last.op = "not" /\ Len(lineage) = 2) =>
        LET o == lineage[1]
            c == views["clone"]
        IN /\ c.negated = o.negated
           /\ c.target = o.target
           /\ c.soft = o.soft
           /\ c.maxErrors = o.maxErrors
           /\ o.soft => c.errors = o.errors
           /\ (last'.op \in Kinds /\ last'.recv = "clone" /\ ~last'.fault) =>
                  /\ last'.failed = Fails(last'.match, o.negated)
                  /\ (last'.failed /\ thrown' = NoError) =>
                         /\ arrays'[o.errors] # arrays[o.errors]
                         /\ IsFailureOf(arrays'[o.errors][Len(arrays'[o.errors])],
                                        last'.op, o.negated)
                  /\ (last'.failed /\ ~o.soft) =>
                         IsFailureOf(thrown', last'.op, o.negated)]_vars

C7_Witness ==
    /\ last.op = "not"
    /\ Len(lineage) = 2
    /\ lineage[1].negated
    /\ SoftSession
    /\ Len(arrays["base"]) >= 1

(* C8: when the predicate given to toSatisfy raises, the caller gets that  *)
(* error, in strict and in soft mode, on negated and unnegated views, also *)
(* when the session is at its capacity; no array changes.                  *)
C8_PredicateRaisePropagates ==
    [][last'.fault =>
        /\ last'.op = "toSatisfy"
        /\ thrown' = PredicateError
        /\ ~IsFailureOf(thrown', "toSatisfy", last'.negated)
        /\ ~IsCapacityExceeded(thrown', MaxErrs)
        /\ cur' = "none"
        /\ \A a \in DOMAIN arrays' : arrays'[a] = arrays[a]
        /\ arrays'[views'["base"].errors] = arrays[views["base"].errors]]_vars

C8_Witness ==
    /\ last.fault
    /\ last.negated
    /\ SoftSession
    /\ views["base"].maxErrors = Max(2)
    /\ Len(arrays["base"]) = 2

(* C9: getErrors() returns a new array holding the recorded failures in    *)
(* their order and changes nothing of the session; a pop on the returned   *)
(* array changes no view's errors; a failure recorded later does not show  *)
(* in the array returned earlier.                                          *)
C9_GetErrorsIndependentCopy ==
    [][/\ last'.op = "getErrors" =>
              /\ arrays'[snap'] = arrays[views[last'.recv].errors]
              /\ \A n \in DOMAIN views' :
                     /\ views'[n] = views[n]
                     /\ arrays'[views'[n].errors] = arrays[views[n].errors]
                     /\ views'[n].errors # snap'
       /\ last'.op = "pop" =>
              /\ Len(arrays'[snap']) = Len(arrays[snap]) - 1
              /\ \A n \in DOMAIN views' :
                     /\ views'[n] = views[n]
                     /\ arrays'[views'[n].errors] = arrays[views[n].errors]
       /\ (last'.op \in Kinds /\ snap # "none") =>
              /\ snap' = snap
              /\ arrays'[snap'] = arrays[snap]]_vars

C9_Witness ==
    /\ snap # "none"
    /\ FailedCheck(last)
    /\ thrown = NoError
    /\ Len(arrays[snap]) = 1
    /\ Len(arrays[views["base"].errors]) = 2
    /\ arrays[snap][1] = arrays[views["base"].errors][1]

\* What the claim calls a step that cannot be followed, for the steps keys
\* taken from val: a key the mapping does not hold, an index past the end
\* of the sequence, any step from a string, number, boolean or null.
RECURSIVE Blocked(_, _)
Blocked(val, keys) ==
    IF Len(keys) = 0 THEN FALSE
    ELSE CASE val.k = "object" ->
                  IF HasOwn(val.ov, Head(keys))
                  THEN Blocked(OwnValue(val.ov, Head(keys)), Tail(keys))
                  ELSE TRUE
           [] val.k = "array" ->
                  IF IsIndex(Head(keys))
                  THEN IF IndexVal(Head(keys)) < Len(val.av)
                       THEN Blocked(val.av[IndexVal(Head(keys)) + 1], Tail(keys))
                       ELSE TRUE
                  ELSE FALSE
           [] val.k \in {"string", "number", "boolean", "null"} -> TRUE
           [] OTHER -> FALSE

(* C10: path resolution yields Absent (undefined) whenever some step of    *)
(* the path cannot be followed, whatever the name of that step.            *)
C10_BlockedStepYieldsAbsent ==
    (rres.done /\ Blocked(rdoc, SplitDots(ReplaceBrackets(rpath)))) =>
        rres.value = Undef

\* The steps getValueAtPath takes for the resolver run's path.
RunKeys == SplitDots(ReplaceBrackets(rpath))

\* The kinds of JavaScript value.
ValueKinds ==
    {"undefined", "null", "boolean", "number", "string", "array", "object",
     "function"}

\* A malformed path: one with an empty step (a dot at either end, two dots
\* in a row, an index right after a dot or at the start), or with a bracket
\* that is not part of an index [N].
Malformed(keys) ==
    \E i \in 1..Len(keys) :
        \/ keys[i] = <<>>
        \/ \E j \in 1..Len(keys[i]) : keys[i][j] \in {"[", "]"}

\* The steps keys, taken from val, step past a null: null is reached with
\* steps left to take.
RECURSIVE PastNull(_, _)
PastNull(val, keys) ==
    IF Len(keys) = 0 THEN FALSE
    ELSE IF val = Null THEN TRUE
    ELSE PastNull(Member(val, Head(keys)), Tail(keys))

(* C11: getValueAtPath raises for no document and no path string: the call *)
(* returns a value, and that value is undefined for a malformed path and   *)
(* for a path that steps past a null (a value other than undefined comes   *)
(* from no such path).                                                     *)
C11_ResolverNeverRaises ==
    rres.done =>
        /\ rres.value # Raised
        /\ rres.value.k \in ValueKinds
        /\ rres.value # Undef =>
               LET keys == RunKeys
               IN ~Malformed(keys) /\ ~PastNull(rdoc, keys)

C11_Witness ==
    /\ rres.done
    /\ rdoc = DocR
    /\ PastNull(rdoc, RunKeys)
    /\ ~Malformed(RunKeys)
    /\ Len(RunKeys) = 3
    /\ rres.value = Undef

\* s has "[", n digits (n >= 1) and "]" from position i on.
IndexAt(s, i, n) ==
    /\ s[i] = "["
    /\ n >= 1
    /\ i + n + 1 <= Len(s)
    /\ s[i + n + 1] = "]"
    /\ \A j \in (i + 1)..(i + n) : s[j] \in Digits

\* The positions of s where an index [N] starts.
IndexStarts(s) ==
    {i \in 1..Len(s) : s[i] = "[" /\ \E n \in 1..(Len(s) - i - 1) : IndexAt(s, i, n)}

\* The path with each '[N]' replaced by '.N': the leftmost one replaced,
\* and then those of what follows it.
RECURSIVE Dotted(_)
Dotted(s) ==
    LET starts == IndexStarts(s)
    IN IF starts = {} THEN s
       ELSE LET i == CHOOSE i \in starts : \A h \in starts : i <= h
                n == CHOOSE n \in 1..(Len(s) - i - 1) : IndexAt(s, i, n)
            IN SubSeq(s, 1, i - 1) \o <<".">> \o SubSeq(s, i + 1, i + n)
               \o Dotted(SubSeq(s, i + n + 2, Len(s)))

(* C12: a path and the path with each '[N]' replaced by '.N' resolve to    *)
(* the same value in every document, and a step of digits taken from a     *)
(* mapping reads the mapping's key of that name (undefined when it has     *)
(* none).                                                                  *)
C12_BracketIsDottedStep ==
    rres.done =>
        /\ rres.value = getValueAtPath(rdoc, Dotted(rpath))
        /\ LET keys == RunKeys
               parent == Reduce(SubSeq(keys, 1, Len(keys) - 1), rdoc)
               step == keys[Len(keys)]
           IN (/\ parent.k = "object"
               /\ step # <<>>
               /\ \A j \in 1..Len(step) : step[j] \in Digits) =>
                  rres.value = IF HasOwn(parent.ov, step)
                               THEN OwnValue(parent.ov, step)
                               ELSE Undef

C12_Witness ==
    /\ rres.done
    /\ rdoc = DocK
    /\ rpath = <<"a", "[", "0", "]">>
    /\ Dotted(rpath) = <<"a", ".", "0">>
    /\ rres.value = Bool(TRUE)

\* The value the test's path resolves to in the document.
Resolved == getValueAtPath(doc, test.path)

\* The step's call reports a failure: it raises, or it records an error.
ReportsFailure ==
    \/ thrown' # NoError
    \/ arrays'[views[last'.recv].errors] # arrays[views[last'.recv].errors]

\* The step is a call of check op that comes out as a check with predicate
\* holds must: on an unnegated view it passes iff holds, on a negated view
\* iff not holds.
Decides(op, holds) ==
    last'.op = op =>
        (~ReportsFailure <=> (holds # views[last'.recv].negated))

\* Structural equality of two values: sequences element by element in
\* order, mappings by their keys and the values under them, whatever the
\* order of the keys.
RECURSIVE DeepEqual(_, _)
DeepEqual(x, y) ==
    IF x.k # y.k THEN FALSE
    ELSE CASE x.k = "array" ->
                  /\ Len(x.av) = Len(y.av)
                  /\ \A i \in 1..Len(x.av) : DeepEqual(x.av[i], y.av[i])
           [] x.k = "object" ->
                  /\ \A i \in 1..Len(x.ov) : HasOwn(y.ov, x.ov[i].key)
                  /\ \A j \in 1..Len(y.ov) : HasOwn(x.ov, y.ov[j].key)
                  /\ \A i \in 1..Len(x.ov) :
                         DeepEqual(x.ov[i].val, OwnValue(y.ov, x.ov[i].key))
           [] OTHER -> x = y

(* C13: without caseInsensitive, toMatchValue(path, expected) passes iff   *)
(* the resolved value and expected are deep-equal: sequences element by    *)
(* element in order, mappings by keys and values whatever the order of the *)
(* keys.                                                                   *)
C13_MatchValueIsDeepEquality ==
    [][~test.caseInsensitive =>
           Decides("toMatchValue", DeepEqual(Resolved, test.expected))]_vars

\* Two characters that are one letter in its two cases.
CasePair(c, d) == {c, d} \in {{"A", "a"}, {"B", "b"}, {"C", "c"}}

\* Two strings equal up to the case of their letters.
SameFolded(s, t) ==
    /\ Len(s) = Len(t)
    /\ \A i \in 1..Len(s) : s[i] = t[i] \/ CasePair(s[i], t[i])

Substring(s, t) ==
    \E i \in 1..(Len(s) + 1), j \in 0..Len(s) : SubSeq(s, i, j) = t

\* The failure the step's call reported is the check's own: the error
\* raised, or the one recorded last, is the AssertionFailure of op.
OrdinaryFailure(op) ==
    LET t == views[last'.recv]
    IN IF thrown' # NoError
       THEN IsFailureOf(thrown', op, t.negated)
       ELSE IsFailureOf(arrays'[t.errors][Len(arrays'[t.errors])], op, t.negated)

\* What the claim gives as the predicate of toContainValue.
Contains(v, e) ==
    \/ v.k = "array" /\ \E i \in 1..Len(v.av) : DeepEqual(v.av[i], e)
    \/ v.k = "string" /\ Substring(v.sv, ToStr(e))

(* C15: toContainValue(path, expected) passes iff the resolved value is a  *)
(* sequence with an element deep-equal to expected, or a string that has   *)
(* String(expected) as a substring; for a value that is neither, the check *)
(* fails with its own failure and raises nothing else.                     *)
C15_ContainValue ==
    [][/\ Decides("toContainValue", Contains(Resolved, test.expected))
       /\ (last'.op = "toContainValue" /\ ReportsFailure) =>
              OrdinaryFailure("toContainValue")]_vars

(* C16: toBeGreaterThan(path, n) passes iff the resolved value is a number *)
(* greater than n, toBeLessThan(path, n) iff it is a number less than n: a *)
(* value equal to n, and a value that is no number (a string of digits,    *)
(* null, Absent), fails both, and the negated forms then pass.             *)
C16_GreaterAndLessAreStrict ==
    [][LET v == Resolved
       IN /\ Decides("toBeGreaterThan", v.k = "number" /\ v.nv > test.num)
          /\ Decides("toBeLessThan", v.k = "number" /\ v.nv < test.num)
          /\ (v.k # "number" \/ v.nv = test.num) =>
                 /\ Decides("toBeGreaterThan", FALSE)
                 /\ Decides("toBeLessThan", FALSE)]_vars

C16_Witness ==
    /\ last.op = "toBeGreaterThan"
    /\ last.recv = "clone"
    /\ last.negated
    /\ test.path = <<"d">>
    /\ Resolved = Str(<<"5">>)
    /\ test.num = 0
    /\ thrown = NoError
    /\ cur = "clone"

\* What the claim gives as the predicate of toBeOneOf.
OneOf(v, candidates) ==
    \E i \in 1..Len(candidates) : DeepEqual(v, candidates[i])

(* C17: toBeOneOf(path, candidates) passes iff the resolved value is       *)
(* deep-equal to an element of candidates (never for the empty list), and  *)
(* not.toBeOneOf passes exactly when toBeOneOf fails.                      *)
C17_OneOfIsDeepMembership ==
    [][Decides("toBeOneOf", OneOf(Resolved, test.values))]_vars

\* The kind the claim gives a value.
KindOf(v) ==
    CASE v.k = "null" -> "null"
      [] v.k = "array" -> "array"
      [] v.k = "object" -> "object"
      [] v.k \in {"string", "number", "boolean"} -> v.k
      [] v.k = "undefined" -> "undefined"

(* C18: toBeType passes iff the requested kind is the one kind of the      *)
(* resolved value: 'null' for null, 'array' for a sequence, 'object' for a *)
(* mapping, their own kind for strings, numbers and booleans, 'undefined'  *)
(* for Absent; so Absent has no kind but 'undefined', and null and         *)
(* sequences are not of kind 'object'.                                     *)
C18_TypeClassification ==
    [][LET v == Resolved
       IN /\ Decides("toBeType", test.type = KindOf(v))
          /\ Cardinality({ty \in TypesV : ty = KindOf(v)}) = 1
          /\ (v = Undef /\ test.type # "undefined") => Decides("toBeType", FALSE)
          /\ (v.k \in {"null", "array"} /\ test.type = "object") =>
                 Decides("toBeType", FALSE)]_vars

C18_Witness ==
    /\ last.op = "toBeType"
    /\ last.recv = "base"
    /\ test.path = <<"n">>
    /\ Resolved = Null
    /\ test.type = "object"
    /\ thrown # NoError
    /\ cur = "none"

(* C19: for a path that resolves to Absent, toHaveKey and toBeDefined fail *)
(* and not.toHaveKey and not.toBeDefined pass; for a path that resolves to *)
(* a value it is the other way round.                                      *)
C19_HaveKeyAndDefined ==
    [][/\ Decides("toHaveKey", Resolved # Undef)
       /\ Decides("toBeDefined", Resolved # Undef)]_vars

C19_Witness ==
    /\ last.op = "toHaveKey"
    /\ last.recv = "clone"
    /\ last.negated
    /\ test.path = <<"x">>
    /\ Resolved = Undef
    /\ thrown = NoError
    /\ cur = "clone"

(* C20: a stored null is a value: on a path that resolves to null,         *)
(* toHaveKey, toBeDefined and toBeNull pass; toBeNull fails on a path that *)
(* resolves to Absent and on every value that is not null (0, false, "").  *)
C20_NullIsAValue ==
    [][IF Resolved = Null
       THEN /\ Decides("toHaveKey", TRUE)
            /\ Decides("toBeDefined", TRUE)
            /\ Decides("toBeNull", TRUE)
       ELSE Decides("toBeNull", FALSE)]_vars

C20_Witness ==
    /\ last.op = "toBeNull"
    /\ last.recv = "base"
    /\ test.path = <<"x">>
    /\ Resolved = Undef
    /\ thrown # NoError
    /\ IsFailureOf(thrown, "toBeNull", FALSE)

\* The values the claim lists as falsy.
FalsyValues == {Bool(FALSE), Num(0), Str(<<>>), Null, Undef}

(* C21: toBeTruthy fails exactly when the resolved value is false, 0, "",  *)
(* null or Absent, and passes for every other value, empty sequences and   *)
(* mappings too; toBeFalsy passes exactly when toBeTruthy fails, and       *)
(* not.toBeTruthy decides as toBeFalsy does.                               *)
C21_TruthyAndFalsy ==
    [][/\ Decides("toBeTruthy", Resolved \notin FalsyValues)
       /\ Decides("toBeFalsy", Resolved \in FalsyValues)]_vars

C21_Witness ==
    /\ last.op = "toBeTruthy"
    /\ last.recv = "base"
    /\ test.path = <<"q">>
    /\ Resolved = Arr(<<>>)
    /\ thrown = NoError
    /\ cur = "base"
    /\ arrays["base"] = <<>>

-----------------------------------------------------------------------------
(* C22: a session made by assertJsonSoft is soft whatever options it was   *)
(* given, soft: false included: its base view is the one                   *)
(* assertJson(data, { soft: true, maxErrors }) makes, every view of it is  *)
(* soft with the maxErrors given, and a failing check never raises its own *)
(* failure. A session made by assertJson without options is strict: a      *)
(* failing check raises its failure and nothing is recorded.               *)
C22_SoftEntryPointIsSoft ==
    /\ test.entry = "assertJsonSoft" =>
           /\ views["base"] = assertJson(doc, Opts(TRUE, test.opts.maxErrors), "base")
           /\ \A v \in DOMAIN views :
                  views[v].soft /\ views[v].maxErrors = test.opts.maxErrors
           /\ FailedCheck(last) =>
                  \/ thrown = NoError
                  \/ /\ test.opts.maxErrors.def
                     /\ IsCapacityExceeded(thrown, test.opts.maxErrors.n)
    /\ (test.entry = "assertJson" /\ test.opts = NoOptions) =>
           /\ \A v \in DOMAIN views : ~views[v].soft
           /\ \A a \in DOMAIN arrays : arrays[a] = <<>>
           /\ FailedCheck(last) => IsFailureOf(thrown, last.op, last.negated)

\* assertJsonSoft(data, { soft: false, maxErrors: 1 }): the first failure is
\* recorded, the second raises CapacityExceeded.
C22_Witness ==
    /\ test.entry = "assertJsonSoft"
    /\ test.opts = Opts(FALSE, Max(1))
    /\ FailedCheck(last)
    /\ Len(arrays[views["base"].errors]) = 1
    /\ IsCapacityExceeded(thrown, 1)

\* The places of e's message where the phrase of check kind op stands.
PhraseAt(e, op) == {i \in 1..Len(e.message) : e.message[i] = Phrase(op)}

\* e names op: the phrase stands in its message, and "not " stands right
\* before it exactly when negated.
NamesItsCheck(e, op, negated) ==
    /\ e.kind = "Error"
    /\ PhraseAt(e, op) # {}
    /\ \A i \in PhraseAt(e, op) :
           i > 1 /\ (negated <=> e.message[i - 1] = "not ")

(* C23: the AssertionFailure a failing check makes (raised in strict mode, *)
(* recorded in soft mode below capacity) holds the phrase of its check     *)
(* kind, and "not " stands right before the phrase exactly when the check  *)
(* was made on a negated view.                                            *)
C23_MessageNamesCheckAndNegation ==
    [][FailedCheck(last') =>
        LET t == views[last'.recv]
            now == arrays'[t.errors]
        IN /\ (~t.soft) => NamesItsCheck(thrown', last'.op, last'.negated)
           /\ (t.soft /\ thrown' = NoError) =>
                  NamesItsCheck(now[Len(now)], last'.op, last'.negated)]_vars

C23_Witness ==
    /\ FailedCheck(last)
    /\ last.op = "toBeGreaterThan"
    /\ last.negated
    /\ SoftSession
    /\ thrown = NoError
    /\ Len(arrays["base"]) = 2
    /\ NamesItsCheck(arrays["base"][2], "toBeGreaterThan", TRUE)
    /\ ~SaysNot(arrays["base"][1])

\* The effective outcome of the check last made, on a view with flag
\* negated, is a pass: passed XOR negated.
EffectivePass(l, negated) == l.op \in Kinds /\ ~l.fault /\ (l.match # negated)

(* C24: a check whose effective outcome is a pass does not raise, leaves    *)
(* every error array as it was, and returns the view it was called on,     *)
(* itself unchanged; in strict and in soft mode, and also when the session *)
(* already holds maxErrors errors.                                         *)
C24_PassingCheckChangesNothing ==
    [][EffectivePass(last', views[last'.recv].negated) =>
        LET r == last'.recv
        IN /\ thrown' = NoError
           /\ cur' = r
           /\ views'[r] = views[r]
           /\ arrays'[views[r].errors] = arrays[views[r].errors]
           /\ \A a \in DOMAIN arrays' : arrays'[a] = arrays[a]]_vars

\* A passing check on a negated view of a soft session that is at capacity.
C24_Witness ==
    /\ EffectivePass(last, last.negated)
    /\ last.recv = "clone"
    /\ last.negated
    /\ cur = "clone"
    /\ thrown = NoError
    /\ SoftSession
    /\ views["clone"].maxErrors = Max(1)
    /\ Len(arrays[views["clone"].errors]) = 1

(* C25: no operation changes the document. After construction, after .not, *)
(* after a check that passes, fails or raises, and after getErrors, the    *)
(* document is what it was, and every view looks at that same document.    *)
C25_DocumentNeverModified ==
    [][/\ doc' = doc
       /\ \A n \in DOMAIN views' : views'[n].target = doc
       /\ \A n \in DOMAIN views : views[n].target = doc]_vars

\* A negated view, a recorded failure, a raise and a getErrors() behind it.
C25_Witness ==
    /\ doc = DocA
    /\ snap # "none"
    /\ Len(arrays[snap]) >= 1
    /\ last.op = "toSatisfy"
    /\ last.fault
    /\ last.recv = "clone"
    /\ thrown = PredicateError
    /\ views["base"].target = DocA

\* s is a prefix of t.
IsPrefix(s, t) == Len(s) <= Len(t) /\ SubSeq(t, 1, Len(s)) = s

\* The error sequence of the session.
SessionErrors == arrays[views["base"].errors]

(* C26: the error sequence of a soft session only grows at its end: over   *)
(* every step, a raise of CapacityExceeded or of a predicate's error       *)
(* included, the sequence before is a prefix of the sequence after; what   *)
(* an earlier getErrors() returned is a prefix of the sequence, and of     *)
(* what a later getErrors() returns.                                       *)
C26_ErrorsAppendOnly ==
    [][SoftSession =>
        /\ IsPrefix(SessionErrors, SessionErrors')
        /\ \A n \in DOMAIN views' : views'[n].errors = views["base"].errors
        /\ snap # "none" => IsPrefix(arrays[snap], SessionErrors)
        /\ (snap # "none" /\ last'.op = "getErrors") =>
               IsPrefix(arrays[snap], arrays'[snap'])]_vars

\* getErrors() returned one error, a second was recorded since, and the
\* check after it raised CapacityExceeded.
C26_Witness ==
    /\ SoftSession
    /\ snap # "none"
    /\ Len(arrays[snap]) = 1
    /\ Len(SessionErrors) = 2
    /\ SessionErrors[1] = arrays[snap][1]
    /\ FailedCheck(last)
    /\ IsCapacityExceeded(thrown, 2)

\* The soft session holds as many errors as its maxErrors allows.
Exhausted ==
    /\ SoftSession
    /\ views["base"].maxErrors.def
    /\ Len(SessionErrors) >= views["base"].maxErrors.n

\* What was raised last is the session's CapacityExceeded.
CapacityRaised ==
    /\ views["base"].maxErrors.def
    /\ IsCapacityExceeded(thrown, views["base"].maxErrors.n)

(* C27: CapacityExceeded is not recoverable. It is raised only by a session *)
(* that is exhausted, and an exhausted session stays exhausted over every  *)
(* step: its error sequence is unchanged, and a failing check on any view  *)
(* of it, the base view or a view got through .not, raises                 *)
(* CapacityExceeded and not its own failure.                               *)
C27_CapacityExceededIsFinal ==
    [][/\ CapacityRaised => Exhausted
       /\ Exhausted =>
              /\ Exhausted'
              /\ SessionErrors' = SessionErrors
              /\ FailedCheck(last') =>
                     /\ CapacityRaised'
                     /\ ~IsFailureOf(thrown', last'.op, last'.negated)
                     /\ cur' = "none"]_vars

\* CapacityExceeded raised by a failing negated check, on a view got through
\* .not from the session that holds its one error.
C27_Witness ==
    /\ SoftSession
    /\ views["base"].maxErrors = Max(1)
    /\ Len(SessionErrors) = 1
    /\ FailedCheck(last)
    /\ last.recv = "clone"
    /\ last.negated
    /\ CapacityRaised
    /\ snap # "none"
    /\ arrays[snap] = SessionErrors

(* C28: a soft session with maxErrors = N, 0 included, never holds more    *)
(* than N recorded failures: its views, the base view and those got        *)
(* through .not, record into one array under one maxErrors, and neither    *)
(* that array nor what getErrors() returned is ever longer than N.         *)
C28_RecordedNeverExceedsMaxErrors ==
    (SoftSession /\ views["base"].maxErrors.def) =>
        LET N == views["base"].maxErrors.n
        IN /\ Len(SessionErrors) <= N
           /\ \A n \in DOMAIN views :
                  /\ views[n].errors = views["base"].errors
                  /\ views[n].maxErrors = Max(N)
           /\ snap # "none" => Len(arrays[snap]) <= N

\* maxErrors = 0: the first failing check, on a negated view, raised
\* CapacityExceeded and nothing is recorded.
C28_Witness ==
    /\ SoftSession
    /\ views["base"].maxErrors = Max(0)
    /\ FailedCheck(last)
    /\ last.recv = "clone"
    /\ IsCapacityExceeded(thrown, 0)
    /\ SessionErrors = <<>>

(* C29: .not does not change the view it is read on, and no check changes  *)
(* the flag of its view. The base view is the same over every step: still  *)
(* unnegated, with its mode and its maxErrors, so a check made on it after *)
(* base.not.check(...) decides unnegated; the view .not returns has the    *)
(* inverse of the flag of the view it was read on; and the view a check    *)
(* returns is the view it was called on, flag and all.                     *)
C29_NegationIsPerView ==
    [][/\ views'["base"] = views["base"]
       /\ ~views["base"].negated
       /\ last'.op = "not" =>
              /\ cur' = "clone"
              /\ views'["clone"].negated = ~views[last'.recv].negated
              /\ lineage'[Len(lineage')] = views[last'.recv]
       /\ (last'.op \in Kinds /\ cur' # "none") =>
              /\ cur' = last'.recv
              /\ views'[cur'] = views[last'.recv]
       /\ (last'.op \in Kinds /\ last'.recv = "base" /\ ~last'.fault) =>
              /\ ~last'.negated
              /\ ReportsFailure <=> ~last'.match]_vars

\* base.not.check(...) recorded a negated failure; the check then made on
\* base passed unnegated.
C29_Witness ==
    /\ SoftSession
    /\ Len(SessionErrors) = 1
    /\ SaysNot(SessionErrors[1])
    /\ last.op \in Kinds
    /\ last.recv = "base"
    /\ last.match
    /\ ~last.failed
    /\ cur = "base"
    /\ ~views["base"].negated

====
